---------------------------- MODULE Spec2Model ----------------------------
(***************************************************************************)
(* Model of yumchat's streaming response pipeline.                         *)
(*                                                                         *)
(*   src/src/main.rs     run_app, handle_keyboard_input, send_message      *)
(*                       (with the spawned producer task) and              *)
(*                       handle_app_event                                  *)
(*   src/src/app.rs      App and App::abort_generation                     *)
(*   src/src/tokens.rs   estimate_tokens, count_message_tokens             *)
(*   src/src/api/mod.rs  OllamaClient::generate_stream (the line decoder)  *)
(*                                                                         *)
(* Strings are sequences of one-character strings, so that push_str,       *)
(* contains, trim and split_whitespace are computed as the code computes   *)
(* them.  Option<T> is a sequence of length at most one.                   *)
(***************************************************************************)
EXTENDS Integers, Sequences, FiniteSets, TLC

(***************************************************************************)
(* Bounds of the model.                                                    *)
(***************************************************************************)
\* submissions (turns) in one run
MaxTurns == 2
\* items one response stream yields before its source ends
MaxUnits == 2
\* ticks of the monotonic clock behind Instant::now()
MaxClock == 1
\* characters the user types into the input buffer
MaxInput == 1
\* lines of the byte input of a response stream read alone
MaxLines == 2
\* items a stream yields before it ends, for a task watched alone
MaxItems == 3
\* messages of a conversation that is saved and loaded
MaxMessages == 2

(***************************************************************************)
(* Option<T>.                                                              *)
(***************************************************************************)
None == <<>>

Some(x) == <<x>>

(***************************************************************************)
(* String literals of the program.                                         *)
(***************************************************************************)
TAG_OPEN ==
    <<"<", "t", "h", "i", "n", "k", "i", "n", "g", ">">>

TAG_CLOSE ==
    <<"<", "/", "t", "h", "i", "n", "k", "i", "n", "g", ">">>

THINKING_OPEN ==
    <<"<", "t", "h", "i", "n", "k", "i", "n", "g", ">", "\n">>

THINKING_CLOSE ==
    <<"\n", "<", "/", "t", "h", "i", "n", "k", "i", "n", "g", ">", "\n">>

ABORT_MARKER ==
    <<"\n", "\n", "[", "R", "e", "s", "p", "o", "n", "s", "e", " ", "s", "t",
      "r", "e", "a", "m", " ", "a", "b", "o", "r", "t", "e", "d", " ", "b",
      "y", " ", "u", "s", "e", "r", "]">>

ERROR_PREFIX ==
    <<"E", "r", "r", "o", "r", ":", " ">>

\* anyhow context of a record that failed to parse (api/mod.rs:175)
ERR_PARSE ==
    <<"F", "a", "i", "l", "e", "d", " ", "t", "o", " ", "p", "a", "r", "s",
      "e", " ", "s", "t", "r", "e", "a", "m", "i", "n", "g", " ", "r", "e",
      "s", "p", "o", "n", "s", "e">>

\* a transport error of the byte stream (api/mod.rs:204), reason "reset"
ERR_STREAM ==
    <<"S", "t", "r", "e", "a", "m", " ", "e", "r", "r", "o", "r", ":", " ",
      "r", "e", "s", "e", "t">>

\* anyhow context of a request that could not be sent (api/mod.rs:150)
ERR_SEND ==
    <<"F", "a", "i", "l", "e", "d", " ", "t", "o", " ", "s", "e", "n", "d",
      " ", "g", "e", "n", "e", "r", "a", "t", "e", " ", "r", "e", "q", "u",
      "e", "s", "t">>

\* the request was answered with a status that is no success, here 500 with
\* an empty body (api/mod.rs:152-156)
ERR_STATUS ==
    <<"A", "P", "I", " ", "r", "e", "q", "u", "e", "s", "t", " ", "f", "a",
      "i", "l", "e", "d", " ", "w", "i", "t", "h", " ", "s", "t", "a", "t",
      "u", "s", " ", "5", "0", "0", " ", "I", "n", "t", "e", "r", "n", "a",
      "l", " ", "S", "e", "r", "v", "e", "r", " ", "E", "r", "r", "o", "r",
      ":", " ">>

(***************************************************************************)
(* str primitives.                                                         *)
(***************************************************************************)
Whitespace == {" ", "\n", "\t", "\r"}

\* str::contains(pat)
contains(s, pat) ==
    \E i \in 1..(Len(s) - Len(pat) + 1) : SubSeq(s, i, i + Len(pat) - 1) = pat

\* str::split_whitespace().count(): the maximal runs of non-whitespace
split_whitespace_count(s) ==
    Cardinality({i \in 1..Len(s) :
                    /\ s[i] \notin Whitespace
                    /\ (i = 1 \/ s[i - 1] \in Whitespace)})

\* usize::saturating_sub
saturating_sub(a, b) == IF a >= b THEN a - b ELSE 0

(***************************************************************************)
(* tokens.rs                                                               *)
(***************************************************************************)
\* variant: the product is truncated, not rounded up
estimate_tokens_truncated(text) ==
    (13 * split_whitespace_count(text)) \div 10

\* ((words as f64) * 1.3).ceil() as usize
estimate_tokens(text) ==
    LET words == split_whitespace_count(text)
    IN  (13 * words + 9) \div 10

count_message_tokens(role, content) ==
    LET role_tokens == 4
        content_tokens == estimate_tokens(content)
    IN  role_tokens + content_tokens

(***************************************************************************)
(* models.rs                                                               *)
(***************************************************************************)
Message_new(role, content, tokens) ==
    [role |-> role, content |-> content, tokens |-> tokens]

Message_new_with_token_count(role, content) ==
    LET role_str == IF role = "User" THEN "user" ELSE "assistant"
    IN  Message_new(role, content, count_message_tokens(role_str, content))

(***************************************************************************)
(* events.rs: AppEvent.  kind is not part of the program's event: it       *)
(* records what the producer meant the event to be (span open, reasoning   *)
(* fragment, span close, answer fragment, completion, failure), and no     *)
(* handler reads it.                                                       *)
(***************************************************************************)
AiResponseChunk(text, kind) ==
    [type |-> "AiResponseChunk", text |-> text, kind |-> kind]

AiResponseDone == [type |-> "AiResponseDone", text |-> <<>>, kind |-> "done"]

AiError(text) == [type |-> "AiError", text |-> text, kind |-> "error"]

VARIABLES
    app,       \* the App struct (app.rs)
    rx,        \* the unbounded mpsc channel: events sent and not yet received
    tasks,     \* the spawned producer tasks, one per submission, in order
    now,       \* the monotonic clock read by Instant::now()
    main_pc,   \* where run_app's loop is: "recv", "poll" or "exit"
    sent,      \* history: the events each task has sent, in order (ProducerSpec)
    yielded,   \* history: the items each task's stream has yielded (ProducerSpec)
    dec,       \* a response stream of generate_stream, read alone (DecoderSpec)
    store      \* a conversation, its file and what was loaded (StorageSpec)

vars == <<app, rx, tasks, now, main_pc, sent, yielded, dec, store>>

(***************************************************************************)
(* f64 quotient a / b (b > 0) as a reduced fraction, so that equal         *)
(* quotients are equal values.                                             *)
(***************************************************************************)
RECURSIVE Gcd(_, _)
Gcd(a, b) == IF b = 0 THEN a ELSE Gcd(b, a % b)

Ratio(a, b) ==
    LET g == Gcd(a, b)
    IN  [num |-> a \div g, den |-> b \div g]

Zero == [num |-> 0, den |-> 1]

(***************************************************************************)
(* app.rs                                                                  *)
(***************************************************************************)
\* scroll_offset takes two values here: 0 and usize::MAX
SCROLL_TOP == "0"

SCROLL_BOTTOM == "usize::MAX"

App_new ==
    [ should_quit            |-> FALSE,
      messages               |-> <<>>,
      input_buffer           |-> <<>>,
      scroll_offset          |-> SCROLL_TOP,
      show_help              |-> FALSE,
      is_loading             |-> FALSE,
      show_info              |-> FALSE,
      exit_pending           |-> FALSE,
      tokens_per_second      |-> Zero,
      generation_start_time  |-> None,
      generation_token_count |-> 0,
      show_thinking          |-> FALSE,
      is_thinking            |-> FALSE,
      current_task           |-> None ]

quit(a) == [a EXCEPT !.should_quit = TRUE]

toggle_help(a) == [a EXCEPT !.show_help = ~@]

toggle_info(a) == [a EXCEPT !.show_info = ~@]

toggle_thinking(a) == [a EXCEPT !.show_thinking = ~@]

scroll_to_bottom(a) == [a EXCEPT !.scroll_offset = SCROLL_BOTTOM]

\* variant: the cancelled message keeps the marker only
abort_generation_discards(a) ==
    LET n  == Len(a.messages)
        a1 == [a EXCEPT !.current_task = None,
                        !.is_loading = FALSE,
                        !.is_thinking = FALSE,
                        !.generation_start_time = None]
    IN  IF n > 0 /\ a1.messages[n].role = "Assistant"
        THEN [a1 EXCEPT !.messages[n].content = ABORT_MARKER]
        ELSE a1

\* variant: the thinking indicator is left as it is
abort_generation_keeps_thinking(a) ==
    LET n  == Len(a.messages)
        a1 == [a EXCEPT !.current_task = None,
                        !.is_loading = FALSE,
                        !.generation_start_time = None]
    IN  IF n > 0 /\ a1.messages[n].role = "Assistant"
        THEN [a1 EXCEPT !.messages[n].content = @ \o ABORT_MARKER]
        ELSE a1

\* The handle abort_generation aborts: self.current_task.take()
abort_generation_handle(a) == a.current_task

abort_generation(a) ==
    LET n  == Len(a.messages)
        a1 == [a EXCEPT !.current_task = None,
                        !.is_loading = FALSE,
                        !.is_thinking = FALSE,
                        !.generation_start_time = None]
    IN  IF n > 0 /\ a1.messages[n].role = "Assistant"
        THEN [a1 EXCEPT !.messages[n].content = @ \o ABORT_MARKER]
        ELSE a1


(***************************************************************************)
(* main.rs: handle_app_event.  t is the value of the clock when it runs.   *)
(***************************************************************************)
\* variant: a chunk is handled whether or not a turn is loading
chunk_never_ignored(a) == FALSE

\* lines 74-76: a chunk is ignored when no turn is loading
chunk_ignored(a) == ~a.is_loading

\* variant: every chunk counts as one token
delta_tokens_one_per_chunk(new_tokens, old_tokens) == 1

\* line 112: new_tokens.saturating_sub(old_tokens)
delta_tokens(new_tokens, old_tokens) == saturating_sub(new_tokens, old_tokens)

\* the AiResponseChunk arm (lines 72-127)
on_chunk(a, chunk, t) ==
    IF chunk_ignored(a) THEN a
    ELSE
      LET a1 == IF contains(chunk, TAG_OPEN)
                THEN [a EXCEPT !.is_thinking = TRUE]
                ELSE IF contains(chunk, TAG_CLOSE)
                     THEN [a EXCEPT !.is_thinking = FALSE]
                     ELSE a
          n  == Len(a1.messages)
      IN  IF n > 0 /\ a1.messages[n].role = "Assistant"
          THEN
            LET a2 == IF a1.generation_start_time = None
                      THEN [a1 EXCEPT !.generation_start_time = Some(t),
                                      !.generation_token_count = 0]
                      ELSE a1
                old_tokens == a2.messages[n].tokens
                content    == a2.messages[n].content \o chunk
                new_tokens == count_message_tokens("assistant", content)
                count   == a2.generation_token_count
                             + delta_tokens(new_tokens, old_tokens)
                elapsed == t - a2.generation_start_time[1]
            IN  scroll_to_bottom(
                  [a2 EXCEPT !.messages[n].content = content,
                             !.messages[n].tokens = new_tokens,
                             !.generation_token_count = count,
                             !.tokens_per_second =
                                 IF elapsed > 0 THEN Ratio(count, elapsed)
                                 ELSE @])
          ELSE a1

\* variant: completion also resets the rate
on_done_resets_rate(a) ==
    scroll_to_bottom([a EXCEPT !.is_loading = FALSE,
                               !.is_thinking = FALSE,
                               !.generation_start_time = None,
                               !.tokens_per_second = Zero])

\* the AiResponseDone arm (lines 128-134)
on_done(a) ==
    scroll_to_bottom([a EXCEPT !.is_loading = FALSE,
                               !.is_thinking = FALSE,
                               !.generation_start_time = None])

\* variant: the notice is written into the message in progress
on_error_in_place(a, error) ==
    LET n == Len(a.messages)
    IN  scroll_to_bottom(
          [a EXCEPT !.is_loading = FALSE,
                    !.is_thinking = FALSE,
                    !.messages = IF n = 0 THEN @
                                 ELSE [@ EXCEPT ![n].content = @ \o ERROR_PREFIX \o error]])

\* variant: the notice is added and the turn stays in progress
on_error_keeps_loading(a, error) ==
    scroll_to_bottom(
      [a EXCEPT !.is_thinking = FALSE,
                !.messages = Append(@,
                    Message_new("Assistant", ERROR_PREFIX \o error, 0))])

\* the AiError arm (lines 135-146)
on_error(a, error) ==
    scroll_to_bottom(
      [a EXCEPT !.is_loading = FALSE,
                !.is_thinking = FALSE,
                !.messages = Append(@,
                    Message_new("Assistant", ERROR_PREFIX \o error, 0))])

handle_app_event(a, event, t) ==
    CASE event.type = "AiResponseChunk" -> on_chunk(a, event.text, t)
      [] event.type = "AiResponseDone"  -> on_done(a)
      [] event.type = "AiError"         -> on_error(a, event.text)

(***************************************************************************)
(* main.rs: send_message, the part that runs on the main loop.  The task   *)
(* it spawns is ProducerSetup / ProducerNext below.                        *)
(***************************************************************************)
\* variant: the rate and the timer of the turn before are kept
send_message_keeps_rate(a) ==
    LET user_msg == a.input_buffer
    IN  scroll_to_bottom(
          [a EXCEPT !.messages = @ \o
                        << Message_new_with_token_count("User", user_msg),
                           Message_new("Assistant", <<>>, 0) >>,
                    !.input_buffer = <<>>,
                    !.is_loading = TRUE])

send_message(a) ==
    LET user_msg == a.input_buffer
    IN  scroll_to_bottom(
          [a EXCEPT !.messages = @ \o
                        << Message_new_with_token_count("User", user_msg),
                           Message_new("Assistant", <<>>, 0) >>,
                    !.input_buffer = <<>>,
                    !.is_loading = TRUE,
                    !.generation_start_time = None,
                    !.tokens_per_second = Zero])

(***************************************************************************)
(* Keys of the model.  Char stands for KeyCode::Char(c) with no modifier;  *)
(* the scroll keys (Up, Down, PageUp, PageDown, Home, End) are left out.   *)
(***************************************************************************)
Keys == {"Esc", "Enter", "Tab", "Backspace", "Char",
         "CtrlC", "CtrlH", "CtrlI", "CtrlQ"}

\* the character KeyCode::Char carries
InputChars == {"h"}

\* main.rs: handle_help_keys
handle_help_keys(a, key) ==
    IF ~a.show_help THEN [app |-> a, handled |-> FALSE]
    ELSE [app |-> CASE key = "CtrlH" -> toggle_help(a)
                    [] key = "Esc"   -> [a EXCEPT !.show_help = FALSE]
                    [] OTHER         -> a,
          handled |-> TRUE]

(***************************************************************************)
(* main.rs: handle_keyboard_input.  Returns the new App, whether a task    *)
(* was spawned (the JoinHandle it returns) and the handle abort_generation *)
(* aborted, if any.                                                        *)
(***************************************************************************)
KeyResult(a, spawned, aborted) ==
    [app |-> a, spawned |-> spawned, aborted |-> aborted]

\* handle_esc without its is_loading guard: Esc cancels whenever no window
\* and no pending exit takes it
handle_esc_unguarded(a) ==
    IF a.show_help
    THEN [app |-> [a EXCEPT !.show_help = FALSE], ret |-> FALSE, aborted |-> None]
    ELSE IF a.show_info
    THEN [app |-> [a EXCEPT !.show_info = FALSE], ret |-> FALSE, aborted |-> None]
    ELSE IF a.exit_pending
    THEN [app |-> [a EXCEPT !.exit_pending = FALSE], ret |-> FALSE, aborted |-> None]
    ELSE [app |-> abort_generation(a),
          ret |-> TRUE, aborted |-> abort_generation_handle(a)]

\* the KeyCode::Esc arm of the first match (lines 182-193); ret says that
\* the function returns there
handle_esc(a) ==
    IF a.show_help
    THEN [app |-> [a EXCEPT !.show_help = FALSE], ret |-> FALSE, aborted |-> None]
    ELSE IF a.show_info
    THEN [app |-> [a EXCEPT !.show_info = FALSE], ret |-> FALSE, aborted |-> None]
    ELSE IF a.exit_pending
    THEN [app |-> [a EXCEPT !.exit_pending = FALSE], ret |-> FALSE, aborted |-> None]
    ELSE IF a.is_loading
    THEN [app |-> abort_generation(a),
          ret |-> TRUE, aborted |-> abort_generation_handle(a)]
    ELSE [app |-> a, ret |-> FALSE, aborted |-> None]

handle_keyboard_input(a, key, c) ==
    LET \* the first match
        first ==
          CASE key = "CtrlC" ->
                 [app |-> IF a.exit_pending THEN quit(a)
                          ELSE [a EXCEPT !.exit_pending = TRUE],
                  ret |-> FALSE, aborted |-> None]
            [] key = "Esc" -> handle_esc(a)
            [] OTHER ->
                 [app |-> IF a.exit_pending
                          THEN [a EXCEPT !.exit_pending = FALSE] ELSE a,
                  ret |-> FALSE, aborted |-> None]
        b == first.app
    IN  IF first.ret \/ b.exit_pending
        THEN KeyResult(b, FALSE, first.aborted)
        ELSE \* the second match
          CASE key = "CtrlQ" -> KeyResult(quit(b), FALSE, None)
            [] key = "CtrlH" -> KeyResult(toggle_help(b), FALSE, None)
            [] key = "CtrlI" -> KeyResult(toggle_info(b), FALSE, None)
            [] key = "Tab"   -> KeyResult(toggle_thinking(b), FALSE, None)
            [] key = "Backspace" ->
                 KeyResult([b EXCEPT !.input_buffer =
                               IF @ = <<>> THEN @ ELSE SubSeq(@, 1, Len(@) - 1)],
                           FALSE, None)
            [] key = "Enter" /\ ~b.is_loading ->
                 IF b.input_buffer # <<>>
                 THEN KeyResult(send_message(b), TRUE, None)
                 ELSE KeyResult(b, FALSE, None)
            [] key = "Char" ->
                 KeyResult([b EXCEPT !.input_buffer = Append(@, c)], FALSE, None)
            [] OTHER -> KeyResult(b, FALSE, None)

(***************************************************************************)
(* main.rs: run_app, the handling of one key press (lines 369-415).  The   *)
(* JoinHandle handle_keyboard_input returns is dropped by run_app, so      *)
(* app.current_task stays as it was.                                       *)
(***************************************************************************)
run_app_key(a, key, c) ==
    LET help == handle_help_keys(a, key)
        Continue(b) ==
            [app |-> b, spawned |-> FALSE, aborted |-> None, cont |-> TRUE]
    IN  IF help.handled THEN Continue(help.app)
        ELSE IF a.show_info /\ key \in {"Esc", "CtrlI"}
        THEN Continue([a EXCEPT !.show_info = FALSE])
        ELSE IF key = "CtrlC"
        THEN Continue(IF a.exit_pending THEN quit(a)
                      ELSE [a EXCEPT !.exit_pending = TRUE])
        ELSE IF key = "Esc" /\ a.show_help
        THEN Continue([a EXCEPT !.show_help = FALSE])
        ELSE IF key = "Esc" /\ a.show_info
        THEN Continue([a EXCEPT !.show_info = FALSE])
        ELSE IF key = "Esc" /\ a.exit_pending
        THEN Continue([a EXCEPT !.exit_pending = FALSE])
        ELSE
          LET r == handle_keyboard_input(
                     IF key # "Esc" /\ a.exit_pending
                     THEN [a EXCEPT !.exit_pending = FALSE] ELSE a,
                     key, c)
          IN  [app |-> r.app, spawned |-> r.spawned, aborted |-> r.aborted,
               cont |-> FALSE]

(***************************************************************************)
(* main.rs: the task send_message spawns (lines 284-348).                  *)
(* What stream.next() yields: a response unit, an error, or the end.       *)
(***************************************************************************)
\* text of the thinking field of a unit
ThinkingTexts == { <<"h", "m">> }

\* text of the response field of a unit
ResponseTexts == { <<"o", "k">> }

\* the units of the streams: every combination of the texts above, one more
\* unit of reasoning with a text of its own, and a unit whose visible text is
\* the tag itself
Units ==
    [thinking : {<<>>} \cup ThinkingTexts,
     response : {<<>>} \cup ResponseTexts,
     done     : BOOLEAN]
      \cup {[thinking |-> <<"s", "o">>, response |-> <<>>, done |-> FALSE],
            [thinking |-> <<>>, response |-> TAG_OPEN, done |-> FALSE]}

StreamErrors == {ERR_PARSE, ERR_STREAM}

\* what generate_stream(request).await fails with
SetupErrors == {ERR_SEND, ERR_STATUS}

StreamItems ==
    {[tag |-> "Ok", unit |-> u, reason |-> <<>>] : u \in Units}
      \cup {[tag |-> "Err", unit |-> None, reason |-> e] : e \in StreamErrors}
      \cup {[tag |-> "None", unit |-> None, reason |-> <<>>]}

(***************************************************************************)
(* One pass of the task's loop (lines 297-334): what it sends for one item *)
(* of the stream, the new in_thinking_block and whether the loop is left.  *)
(***************************************************************************)
\* a span is opened before the reasoning text (lines 301-305)
\* variant: the flag is not looked at, every reasoning fragment opens a span
opens_span_unguarded(in_thinking_block, response) ==
    response.thinking # <<>>

opens_span(in_thinking_block, response) ==
    response.thinking # <<>> /\ ~in_thinking_block

\* variant: visible text never closes a span
closes_span_never(in_thinking_block, response) == FALSE

\* variant: visible text closes a span only in a unit without reasoning text
closes_span_without_reasoning(in_thinking_block, response) ==
    response.response # <<>> /\ in_thinking_block /\ response.thinking = <<>>

\* a span is closed before the visible text (lines 310-314)
closes_span(in_thinking_block, response) ==
    response.response # <<>> /\ in_thinking_block

\* the Ok(response) arm (lines 299-327)
producer_ok(in_thinking_block, response) ==
    LET open  == IF opens_span(in_thinking_block, response)
                 THEN <<AiResponseChunk(THINKING_OPEN, "open")>> ELSE <<>>
        think == IF response.thinking # <<>>
                 THEN <<AiResponseChunk(response.thinking, "reasoning")>>
                 ELSE <<>>
        itb1  == in_thinking_block \/ response.thinking # <<>>
        close == IF closes_span(itb1, response)
                 THEN <<AiResponseChunk(THINKING_CLOSE, "close")>> ELSE <<>>
        answer == IF response.response # <<>>
                  THEN <<AiResponseChunk(response.response, "answer")>>
                  ELSE <<>>
        itb2  == itb1 /\ response.response = <<>>
        final == IF response.done
                 THEN (IF itb2
                       THEN <<AiResponseChunk(THINKING_CLOSE, "close")>>
                       ELSE <<>>) \o <<AiResponseDone>>
                 ELSE <<>>
    IN  [events |-> open \o think \o close \o answer \o final,
         in_thinking_block |-> itb2 /\ ~response.done]

\* the Err(e) arm (lines 328-332)
producer_err(in_thinking_block, e) ==
    [events |-> <<AiError(e)>>,
     in_thinking_block |-> in_thinking_block]

\* variant: the end of the stream completes the turn and leaves the span open
producer_end_unclosed(in_thinking_block) ==
    [events |-> <<AiResponseDone>>, in_thinking_block |-> in_thinking_block]

\* variant: the task ends without a word when the stream ends
producer_end_silent(in_thinking_block) ==
    [events |-> <<>>, in_thinking_block |-> in_thinking_block]

\* the stream has ended: the loop is left with received_done false and
\* lines 336-342 run
producer_end(in_thinking_block) ==
    [events |-> (IF in_thinking_block
                 THEN <<AiResponseChunk(THINKING_CLOSE, "close")>>
                 ELSE <<>>) \o <<AiResponseDone>>,
     in_thinking_block |-> in_thinking_block]

\* variant: an error does not end the loop
producer_break_on_done_only(item) ==
    item.tag = "None" \/ (item.tag = "Ok" /\ item.unit.done)

\* variant: a done unit does not end the loop
producer_break_on_error_only(item) == item.tag # "Ok"

\* whether the task's loop ends with this item: break on a done unit
\* (line 325) and on an error (line 331), and the end of the stream
producer_break(item) == item.tag = "Ok" => item.unit.done

producer_item(in_thinking_block, item) ==
    LET r == CASE item.tag = "Ok"   -> producer_ok(in_thinking_block, item.unit)
               [] item.tag = "Err"  -> producer_err(in_thinking_block, item.reason)
               [] item.tag = "None" -> producer_end(in_thinking_block)
    IN  [events |-> r.events,
         in_thinking_block |-> r.in_thinking_block,
         break |-> producer_break(item)]

\* variant: the failure of the request is reported inside the placeholder
producer_setup_failed_as_chunk(e) ==
    <<AiResponseChunk(ERROR_PREFIX \o e, "answer"), AiError(e)>>

\* the Err arm of generate_stream's result (lines 344-346)
producer_setup_failed(e) == <<AiError(e)>>

\* tx.send: the event as it travels, with the task that sent it
Envelope(t, e) ==
    [type |-> e.type, text |-> e.text, kind |-> e.kind, src |-> t]

RECURSIVE Envelopes(_, _)
Envelopes(t, es) ==
    IF es = <<>> THEN <<>> ELSE <<Envelope(t, Head(es))>> \o Envelopes(t, Tail(es))

\* a task as tokio::spawn creates it; msg is the index of its turn's placeholder
Task_new(msg) ==
    [pc |-> "setup", in_thinking_block |-> FALSE, pulled |-> 0,
     msg |-> msg, cancelled |-> FALSE]

(***************************************************************************)
(* api/mod.rs: generate_stream, the stream made by futures::stream::unfold *)
(* over (byte_stream, buffer) (lines 159-225).                             *)
(*                                                                         *)
(* Bytes.  The decoder looks at a byte in three ways only: is it the       *)
(* newline, is it whitespace (trim), and does the trimmed text parse as a  *)
(* GenerateResponse.  The input alphabet keeps these apart: "{" and "}"    *)
(* open and close a JSON object, one symbol stands for each member of the  *)
(* object ("T" a thinking string, "R" a response string, "D" done:true,    *)
(* "F" done:false, "C" a context array), "x" is a byte no record holds,    *)
(* and " ", "\r", "\n" are themselves.  All are ASCII, so from_utf8_lossy  *)
(* changes nothing.                                                        *)
(***************************************************************************)
\* anyhow context of a last record that failed to parse (api/mod.rs:214)
ERR_PARSE_FINAL ==
    <<"F", "a", "i", "l", "e", "d", " ", "t", "o", " ", "p", "a", "r", "s",
      "e", " ", "f", "i", "n", "a", "l", " ", "s", "t", "r", "e", "a", "m",
      "i", "n", "g", " ", "r", "e", "s", "p", "o", "n", "s", "e">>

Ok(unit) == [tag |-> "Ok", unit |-> unit, reason |-> <<>>]

Err(reason) == [tag |-> "Err", unit |-> None, reason |-> reason]

\* str::trim
RECURSIVE trim_start(_)
trim_start(s) ==
    IF s # <<>> /\ Head(s) \in Whitespace THEN trim_start(Tail(s)) ELSE s

RECURSIVE trim_end(_)
trim_end(s) ==
    IF s # <<>> /\ s[Len(s)] \in Whitespace
    THEN trim_end(SubSeq(s, 1, Len(s) - 1)) ELSE s

trim(s) == trim_end(trim_start(s))

Count(s, c) == Cardinality({i \in 1..Len(s) : s[i] = c})

(***************************************************************************)
(* serde_json::from_str::<GenerateResponse>(text): text is one JSON        *)
(* object and nothing else; response, thinking and context are             *)
(* #[serde(default)], done is required; a member given twice is an error.  *)
(* The value is None when the text does not parse.                         *)
(***************************************************************************)
from_str(text) ==
    LET n      == Len(text)
        inner  == SubSeq(text, 2, n - 1)
        Member == {"T", "R", "D", "F", "C"}
    IN  IF /\ n >= 2
           /\ text[1] = "{"
           /\ text[n] = "}"
           /\ \A i \in 1..Len(inner) : inner[i] \in Member \cup Whitespace
           /\ Count(inner, "T") <= 1
           /\ Count(inner, "R") <= 1
           /\ Count(inner, "C") <= 1
           /\ Count(inner, "D") + Count(inner, "F") = 1
        THEN Some([thinking |-> IF Count(inner, "T") = 1 THEN <<"h", "m">> ELSE <<>>,
                   response |-> IF Count(inner, "R") = 1 THEN <<"o", "k">> ELSE <<>>,
                   done     |-> Count(inner, "D") = 1])
        ELSE None

\* buffer.iter().position(|&b| b == b'\n'), counted from 1; 0 when absent
position(buffer) ==
    IF \E i \in 1..Len(buffer) : buffer[i] = "\n"
    THEN CHOOSE i \in 1..Len(buffer) :
            buffer[i] = "\n" /\ \A j \in 1..(i - 1) : buffer[j] # "\n"
    ELSE 0

\* a split that keeps the line and loses what follows it
split_line_loses_rest(buffer) ==
    [line |-> SubSeq(buffer, 1, position(buffer)), buffer |-> <<>>]

\* lines 166-168: split_off(pos + 1) and swap
split_line(buffer) ==
    LET pos == position(buffer)
    IN  [line   |-> SubSeq(buffer, 1, pos),
         buffer |-> SubSeq(buffer, pos + 1, Len(buffer))]

\* variant: a line that does not parse is passed over like a blank line
line_result_skips_malformed(line) ==
    IF from_str(trim(line)) = None THEN None
    ELSE Some(Ok(from_str(trim(line))[1]))

\* lines 171-177: the result for an extracted line (None for a blank line)
line_result(line) ==
    LET trimmed == trim(line)
        parsed  == from_str(trimmed)
    IN  IF trimmed = <<>> THEN None
        ELSE IF parsed = None THEN Some(Err(ERR_PARSE))
        ELSE Some(Ok(parsed[1]))

\* variant: the chunk takes the place of what the buffer held
extend_from_slice_replaces(buffer, bytes) == bytes

\* line 200: buffer.extend_from_slice(&bytes)
extend_from_slice(buffer, bytes) == buffer \o bytes

\* lines 185-195: the whole buffer, without a newline, is a record
whole_buffer_parses(buffer) ==
    /\ buffer # <<>>
    /\ trim(buffer) # <<>>
    /\ from_str(trim(buffer)) # None

\* variant: what is left in the buffer at the end of the byte stream is dropped
final_result_discards(buffer) == None

\* variant: a failure of the byte stream is passed over and what the buffer
\* holds is read as the last record
source_error_flushes(buffer) ==
    LET parsed == from_str(trim(buffer))
    IN  [items  |-> IF parsed = None THEN <<>> ELSE <<Ok(parsed[1])>>,
         buffer |-> <<>>]

\* lines 203-205: the item returned when the byte stream fails, and the
\* buffer the closure keeps
source_error(buffer) ==
    [items |-> <<Err(ERR_STREAM)>>, buffer |-> buffer]

\* lines 208-220: the result at the end of the byte stream (None: no item)
final_result(buffer) ==
    LET trimmed == trim(buffer)
        parsed  == from_str(trimmed)
    IN  IF buffer = <<>> \/ trimmed = <<>> THEN None
        ELSE IF parsed = None THEN Some(Err(ERR_PARSE_FINAL))
        ELSE Some(Ok(parsed[1]))

(***************************************************************************)
(* The byte input of a stream read alone: up to MaxLines lines and a tail  *)
(* without a terminator.  A line is a record with its unit, a blank line   *)
(* or a malformed record.                                                  *)
(***************************************************************************)
RecordLines ==
    { [kind |-> "record",
       bytes |-> <<"{", "T", "F", "}", "\n">>,
       unit |-> [thinking |-> <<"h", "m">>, response |-> <<>>, done |-> FALSE]],
      [kind |-> "record",
       bytes |-> <<"{", "R", "D", "}", "\r", "\n">>,
       unit |-> [thinking |-> <<>>, response |-> <<"o", "k">>, done |-> TRUE]] }

\* records that leave members out: the unit is the one with the absent members
\* at the defaults of their types (empty text, false)
PartialLines ==
    { [kind |-> "partial",
       bytes |-> <<"{", "D", "}", "\n">>,
       unit |-> [thinking |-> <<>>, response |-> <<>>, done |-> TRUE]],
      [kind |-> "partial",
       bytes |-> <<"{", "R", "}", "\n">>,
       unit |-> [thinking |-> <<>>, response |-> <<"o", "k">>, done |-> FALSE]] }

OtherLines ==
    { [kind |-> "blank", bytes |-> <<" ", "\n">>, unit |-> None],
      [kind |-> "malformed", bytes |-> <<"{", "x", "}", "\n">>, unit |-> None] }

Tails == { <<>>, <<" ">>, <<"{", "F", "}">>, <<"{", "R">> }

RECURSIVE Flatten(_)
Flatten(ls) == IF ls = <<>> THEN <<>> ELSE Head(ls).bytes \o Flatten(Tail(ls))

SeqsUpTo(S, n) == UNION {[1..k -> S] : k \in 0..n}

\* the state of one stream: the bytes the byte stream has still to yield
\* (rest), the unfold state (buffer), the items yielded so far (out), whether
\* the stream has ended, what happened at the source, whether the call of the
\* closure in progress has polled the byte stream (pulled) and whether the
\* last call that returned an item returned it without polling (from_buffer),
\* the bytes the byte stream has yielded (read) and the bytes taken out of the
\* buffer as lines or records (taken)
Decoder_new(lines, tail) ==
    [lines    |-> lines,
     tail     |-> tail,
     rest     |-> Flatten(lines) \o tail,
     buffer   |-> <<>>,
     out      |-> <<>>,
     ended    |-> FALSE,
     errored  |-> FALSE,
     split_inside |-> FALSE,
     empty_chunk  |-> FALSE,
     pulled       |-> FALSE,
     from_buffer  |-> FALSE,
     read         |-> <<>>,
     taken        |-> <<>>]

(***************************************************************************)
(* storage/mod.rs: a conversation written to its file and read back.       *)
(***************************************************************************)
\* "## ", which save_conversation writes before a role and
\* parse_conversation splits at
SECTION_MARK == <<"#", "#", " ">>

\* str::split(pat): the pieces of s between the occurrences of pat, taken
\* from the left and not overlapping
RECURSIVE split(_, _)
split(s, pat) ==
    IF contains(s, pat)
    THEN LET i == CHOOSE i \in 1..(Len(s) - Len(pat) + 1) :
                     /\ SubSeq(s, i, i + Len(pat) - 1) = pat
                     /\ \A j \in 1..(i - 1) : SubSeq(s, j, j + Len(pat) - 1) # pat
         IN  <<SubSeq(s, 1, i - 1)>> \o split(SubSeq(s, i + Len(pat), Len(s)), pat)
    ELSE <<s>>

\* str::split_once('\n'): None when s holds no newline
split_once(s) ==
    LET pos == position(s)
    IN  IF pos = 0 THEN None
        ELSE Some([head |-> SubSeq(s, 1, pos - 1), tail |-> SubSeq(s, pos + 1, Len(s))])

\* the text save_conversation writes for one message (lines 46-56)
save_message(message) ==
    SECTION_MARK
      \o (IF message.role = "User" THEN <<"U", "s", "e", "r">>
          ELSE <<"A", "s", "s", "i", "s", "t", "a", "n", "t">>)
      \o <<"\n", "\n">> \o message.content \o <<"\n", "\n">>

\* Storage::save_conversation: the content of the file
RECURSIVE save_conversation(_)
save_conversation(messages) ==
    IF messages = <<>> THEN <<>>
    ELSE save_message(Head(messages)) \o save_conversation(Tail(messages))

\* the body of parse_conversation's loop (lines 81-91): the message of one
\* section, or nothing when the section holds no newline
parse_section(section) ==
    LET so == split_once(section)
    IN  IF so = None THEN <<>>
        ELSE <<Message_new(IF trim(so[1].head) = <<"U", "s", "e", "r">>
                           THEN "User" ELSE "Assistant",
                           trim(so[1].tail), 0)>>

RECURSIVE parse_sections(_)
parse_sections(sections) ==
    IF sections = <<>> THEN <<>>
    ELSE parse_section(Head(sections)) \o parse_sections(Tail(sections))

\* Storage::parse_conversation
parse_conversation(content) == parse_sections(Tail(split(content, SECTION_MARK)))

\* Storage::load_conversation: no messages when the file does not exist
load_conversation(file) ==
    IF file = None THEN <<>> ELSE parse_conversation(file[1])

\* texts of the messages that are saved: none, a word, two words, a text
\* that ends with a newline, as a closed reasoning span does, and a text
\* that holds a heading
StoredTexts ==
    { <<>>,
      <<"o", "k">>,
      <<"h", "i", " ", "y", "o", "u">>,
      <<"h", "m", "\n">>,
      <<"a", "\n", "#", "#", " ", "b">> }

StoredMessages ==
    {Message_new(role, text, count_message_tokens("", text)) :
        role \in {"User", "Assistant"}, text \in StoredTexts}

\* a conversation in memory, its file (None: not there) and what a load
\* has returned (None: nothing loaded yet)
Store_new(messages) == [messages |-> messages, file |-> None, loaded |-> None]

(***************************************************************************)
(* The state machine.                                                      *)
(***************************************************************************)
Init ==
    /\ app = App_new
    /\ rx = <<>>
    /\ tasks = <<>>
    /\ now = 0
    /\ main_pc = "recv"
    /\ sent = <<>>
    /\ yielded = <<>>
    /\ store = Store_new(<<>>)
    /\ dec = Decoder_new(<<>>, <<>>)

\* variant: a channel that yields the newest event first
try_recv_newest(q) ==
    [event |-> q[Len(q)], rest |-> SubSeq(q, 1, Len(q) - 1)]

\* UnboundedReceiver::try_recv on a channel that is not empty: the oldest
\* event, and the channel without it
try_recv(q) == [event |-> Head(q), rest |-> Tail(q)]

\* run_app lines 362-364: try_recv yields the head of the channel
RecvEvent ==
    /\ main_pc = "recv"
    /\ rx # <<>>
    /\ app' = handle_app_event(app, try_recv(rx).event, now)
    /\ rx' = try_recv(rx).rest
    /\ main_pc' = "poll"
    /\ UNCHANGED <<tasks, now>>

\* run_app lines 362-364: try_recv finds the channel empty
RecvEmpty ==
    /\ main_pc = "recv"
    /\ rx = <<>>
    /\ main_pc' = "poll"
    /\ UNCHANGED <<app, rx, tasks, now>>

\* JoinHandle::abort on the task h names
AbortTask(ts, h) ==
    IF h = None \/ ts[h[1]].pc = "finished" THEN ts
    ELSE [ts EXCEPT ![h[1]].pc = "aborted"]

\* run_app lines 367-421: poll returns a key press
PollKey(key, c, turns) ==
    /\ main_pc = "poll"
    /\ LET r == run_app_key(app, key, c)
           cancel == key = "Esc" /\ app.is_loading /\ ~r.app.is_loading
           ts1 == AbortTask(tasks, r.aborted)
           ts2 == IF cancel /\ ts1 # <<>>
                  THEN [ts1 EXCEPT ![Len(ts1)].cancelled = TRUE] ELSE ts1
       IN  /\ r.spawned => Len(tasks) < turns
           /\ Len(r.app.input_buffer) <= MaxInput
           /\ app' = r.app
           /\ tasks' = IF r.spawned
                       THEN Append(ts2, Task_new(Len(r.app.messages)))
                       ELSE ts2
           /\ main_pc' = IF ~r.cont /\ r.app.should_quit THEN "exit" ELSE "recv"
    /\ UNCHANGED <<rx, now>>

\* run_app lines 367-421: poll times out
PollTimeout ==
    /\ main_pc = "poll"
    /\ main_pc' = IF app.should_quit THEN "exit" ELSE "recv"
    /\ UNCHANGED <<app, rx, tasks, now>>

\* generate_stream(request).await returns (main.rs line 292)
ProducerSetup(t, ok, e) ==
    /\ main_pc # "exit"
    /\ t \in 1..Len(tasks)
    /\ tasks[t].pc = "setup"
    /\ LET es == IF ok THEN <<>> ELSE producer_setup_failed(e)
       IN  /\ rx' = rx \o Envelopes(t, es)
           /\ tasks' = [tasks EXCEPT ![t].pc = IF ok THEN "stream" ELSE "finished"]
    /\ UNCHANGED <<app, now, main_pc>>

\* stream.next().await returns (main.rs line 297)
ProducerNext(t, item, units) ==
    /\ main_pc # "exit"
    /\ t \in 1..Len(tasks)
    /\ tasks[t].pc = "stream"
    /\ tasks[t].pulled >= units => item.tag = "None"
    /\ LET r == producer_item(tasks[t].in_thinking_block, item)
       IN  /\ rx' = rx \o Envelopes(t, r.events)
           /\ tasks' = [tasks EXCEPT
                          ![t].pc = IF r.break THEN "finished" ELSE "stream",
                          ![t].in_thinking_block = r.in_thinking_block,
                          ![t].pulled = @ + 1]
    /\ UNCHANGED <<app, now, main_pc>>

\* time passes
Tick ==
    /\ main_pc # "exit"
    /\ now < MaxClock
    /\ now' = now + 1
    /\ UNCHANGED <<app, rx, tasks, main_pc>>

\* what the main loop does in one step, with the keys of `keys` and at most
\* `turns` submissions
MainLoop(keys, turns) ==
    \/ RecvEvent
    \/ RecvEmpty
    \/ \E key \in keys, c \in InputChars : PollKey(key, c, turns)
    \/ PollTimeout

\* the events a step has put on the channel
Sent == SubSeq(rx', Len(rx) + 1, Len(rx'))

\* the history of task t
SentBy(t) == IF t \in DOMAIN sent THEN sent[t] ELSE <<>>

\* the items task t's stream has yielded
YieldedTo(t) == IF t \in DOMAIN yielded THEN yielded[t] ELSE <<>>

\* the step's sends, done by task t, and the items its stream yielded in the
\* step are added to the histories
Record(t, items) ==
    /\ sent' = [i \in 1..Len(tasks) |->
                  IF i = t THEN SentBy(i) \o Sent ELSE SentBy(i)]
    /\ yielded' = [i \in 1..Len(tasks) |->
                     IF i = t THEN YieldedTo(i) \o items ELSE YieldedTo(i)]

(***************************************************************************)
(* Spec: the streaming core.  Up to MaxTurns turns, whose tasks run side   *)
(* by side with the main loop; the keys are those that submit, cancel and  *)
(* edit the input; the streams yield the items of CoreItems.               *)
(***************************************************************************)
CoreKeys == {"Esc", "Enter", "Char", "Backspace"}

CoreItems ==
    {[tag |-> "Ok", reason |-> <<>>,
      unit |-> [thinking |-> <<"h", "m">>, response |-> <<>>, done |-> FALSE]],
     [tag |-> "Ok", reason |-> <<>>,
      unit |-> [thinking |-> <<>>, response |-> <<"o", "k">>, done |-> TRUE]],
     [tag |-> "Err", unit |-> None, reason |-> ERR_STREAM],
     [tag |-> "None", unit |-> None, reason |-> <<>>]}

Next ==
    \/ MainLoop(CoreKeys, MaxTurns) /\ UNCHANGED <<sent, yielded, dec, store>>
    \/ \E t \in 1..Len(tasks), ok \in BOOLEAN :
          ProducerSetup(t, ok, ERR_SEND) /\ UNCHANGED <<sent, yielded, dec, store>>
    \/ \E t \in 1..Len(tasks), item \in CoreItems :
          ProducerNext(t, item, MaxUnits) /\ UNCHANGED <<sent, yielded, dec, store>>
    \/ Tick /\ UNCHANGED <<sent, yielded, dec, store>>

Spec == Init /\ [][Next]_vars

(***************************************************************************)
(* ProducerSpec: one turn that is never cancelled.  The stream yields      *)
(* every item of StreamItems, and the history of what the task sent is     *)
(* kept.                                                                   *)
(***************************************************************************)
NextProducer ==
    \/ MainLoop({"Enter", "Char"}, 1) /\ UNCHANGED <<sent, yielded, dec, store>>
    \/ \E t \in 1..Len(tasks), ok \in BOOLEAN, e \in SetupErrors :
          ProducerSetup(t, ok, e) /\ Record(t, <<>>) /\ UNCHANGED <<dec, store>>
    \/ \E t \in 1..Len(tasks), item \in StreamItems :
          ProducerNext(t, item, MaxItems) /\ Record(t, <<item>>) /\ UNCHANGED <<dec, store>>

ProducerSpec == Init /\ [][NextProducer]_vars

(***************************************************************************)
(* DecoderSpec: one response stream read to its end, for every input of    *)
(* up to MaxLines lines and every way the byte stream cuts it into chunks. *)
(* A step is one pass of the closure's loop.                               *)
(***************************************************************************)
InitDecoder ==
    /\ app = App_new
    /\ rx = <<>>
    /\ tasks = <<>>
    /\ now = 0
    /\ main_pc = "recv"
    /\ sent = <<>>
    /\ yielded = <<>>
    /\ store = Store_new(<<>>)
    /\ \E ls \in SeqsUpTo(RecordLines \cup PartialLines \cup OtherLines, MaxLines),
          tail \in Tails :
          dec = Decoder_new(ls, tail)

\* lines 164-180: the buffer holds a newline; the line is taken out and, when
\* it is not blank, its result is returned
DecoderLine ==
    /\ ~dec.ended
    /\ position(dec.buffer) # 0
    /\ LET x == split_line(dec.buffer)
           r == line_result(x.line)
       IN  dec' = [dec EXCEPT
                     !.buffer = x.buffer,
                     !.taken = @ \o x.line,
                     !.out = @ \o r,
                     !.pulled = IF r = None THEN @ ELSE FALSE,
                     !.from_buffer = IF r = None THEN @ ELSE ~dec.pulled]

\* lines 185-195: no newline, and the whole buffer parses as a record
DecoderWhole ==
    /\ ~dec.ended
    /\ position(dec.buffer) = 0
    /\ whole_buffer_parses(dec.buffer)
    /\ dec' = [dec EXCEPT !.buffer = <<>>,
                          !.taken = @ \o dec.buffer,
                          !.out = Append(@, Ok(from_str(trim(dec.buffer))[1])),
                          !.pulled = FALSE,
                          !.from_buffer = ~dec.pulled]

\* variant: the byte stream is polled whatever the buffer holds
NeedsBytes_eager == ~dec.ended

\* the pass reaches byte_stream.next().await (line 198)
NeedsBytes ==
    /\ ~dec.ended
    /\ position(dec.buffer) = 0
    /\ ~whole_buffer_parses(dec.buffer)

\* the bytes yielded so far end inside a line (neither at a line's end nor
\* at the end of the input)
EndsInsideLine(rest) ==
    /\ rest # <<>>
    /\ \A k \in 0..Len(dec.lines) :
          Len(rest) # Len(Flatten(SubSeq(dec.lines, k + 1, Len(dec.lines)))
                            \o dec.tail)

\* lines 199-202: Some(Ok(bytes)), a chunk of k bytes
DecoderChunk(k) ==
    /\ NeedsBytes
    /\ k \in 0..Len(dec.rest)
    /\ LET rest == SubSeq(dec.rest, k + 1, Len(dec.rest))
       IN  dec' = [dec EXCEPT
                     !.buffer = extend_from_slice(@, SubSeq(dec.rest, 1, k)),
                     !.read = @ \o SubSeq(dec.rest, 1, k),
                     !.rest = rest,
                     !.split_inside = @ \/ EndsInsideLine(rest),
                     !.empty_chunk = @ \/ k = 0,
                     !.pulled = TRUE]

\* lines 203-205: Some(Err(e)); the connection is lost with what it held
DecoderTransportError ==
    /\ NeedsBytes
    /\ ~dec.errored
    /\ LET r == source_error(dec.buffer)
       IN  dec' = [dec EXCEPT !.buffer = r.buffer,
                              !.out = @ \o r.items,
                              !.rest = <<>>,
                              !.errored = TRUE,
                              !.pulled = FALSE,
                              !.from_buffer = FALSE]

\* lines 206-221: None, the byte stream has ended
DecoderEnd ==
    /\ NeedsBytes
    /\ dec.rest = <<>>
    /\ LET r == final_result(dec.buffer)
       IN  dec' = [dec EXCEPT !.buffer = IF r = None THEN @ ELSE <<>>,
                              !.taken = IF r = None THEN @ ELSE @ \o dec.buffer,
                              !.out = @ \o r,
                              !.ended = (r = None),
                              !.pulled = FALSE,
                              !.from_buffer = IF r = None THEN @ ELSE FALSE]

NextDecoder ==
    \/ DecoderLine /\ UNCHANGED <<app, rx, tasks, now, main_pc, sent, yielded, store>>
    \/ DecoderWhole /\ UNCHANGED <<app, rx, tasks, now, main_pc, sent, yielded, store>>
    \/ \E k \in 0..Len(dec.rest) :
          DecoderChunk(k) /\ UNCHANGED <<app, rx, tasks, now, main_pc, sent, yielded, store>>
    \/ DecoderTransportError /\ UNCHANGED <<app, rx, tasks, now, main_pc, sent, yielded, store>>
    \/ DecoderEnd /\ UNCHANGED <<app, rx, tasks, now, main_pc, sent, yielded, store>>

DecoderSpec == InitDecoder /\ [][NextDecoder]_vars

(***************************************************************************)
(* StorageSpec: a conversation of up to MaxMessages messages is saved and  *)
(* loaded.                                                                 *)
(***************************************************************************)
InitStorage ==
    /\ app = App_new
    /\ rx = <<>>
    /\ tasks = <<>>
    /\ now = 0
    /\ main_pc = "recv"
    /\ sent = <<>>
    /\ yielded = <<>>
    /\ dec = Decoder_new(<<>>, <<>>)
    /\ \E ms \in SeqsUpTo(StoredMessages, MaxMessages) : store = Store_new(ms)

\* Storage::save_conversation
SaveConversation ==
    /\ store.file = None
    /\ store' = [store EXCEPT !.file = Some(save_conversation(store.messages))]
    /\ UNCHANGED <<app, rx, tasks, now, main_pc, sent, yielded, dec>>

\* Storage::load_conversation
LoadConversation ==
    /\ store.loaded = None
    /\ store' = [store EXCEPT !.loaded = Some(load_conversation(store.file))]
    /\ UNCHANGED <<app, rx, tasks, now, main_pc, sent, yielded, dec>>

NextStorage == SaveConversation \/ LoadConversation

StorageSpec == InitStorage /\ [][NextStorage]_vars

(***************************************************************************)
(* TurnsSpec: the turns of Spec with the history of what each task sent.   *)
(* The clock stands still.                                                 *)
(***************************************************************************)
NextTurns ==
    \/ MainLoop(CoreKeys, MaxTurns) /\ UNCHANGED <<sent, yielded, dec, store>>
    \/ \E t \in 1..Len(tasks), ok \in BOOLEAN :
          ProducerSetup(t, ok, ERR_SEND) /\ Record(t, <<>>) /\ UNCHANGED <<dec, store>>
    \/ \E t \in 1..Len(tasks), item \in CoreItems :
          ProducerNext(t, item, MaxUnits) /\ Record(t, <<item>>) /\ UNCHANGED <<dec, store>>

TurnsSpec == Init /\ [][NextTurns]_vars

(***************************************************************************)
(* UiSpec: one turn with every key of Keys: the help and info windows, the *)
(* pending exit, quitting, and the keys of Spec.                           *)
(***************************************************************************)
NextUi ==
    \/ MainLoop(Keys, 1) /\ UNCHANGED <<sent, yielded, dec, store>>
    \/ \E t \in 1..Len(tasks), ok \in BOOLEAN :
          ProducerSetup(t, ok, ERR_SEND) /\ UNCHANGED <<sent, yielded, dec, store>>
    \/ \E t \in 1..Len(tasks), item \in CoreItems :
          ProducerNext(t, item, MaxUnits) /\ UNCHANGED <<sent, yielded, dec, store>>

UiSpec == Init /\ [][NextUi]_vars

(***************************************************************************)
(* Vocabulary of the properties.                                           *)
(***************************************************************************)
\* the step is the main loop receiving the head of the channel
RecvStep == main_pc = "recv" /\ rx # <<>> /\ main_pc' = "poll"

IsTerminal(e) == e.type \in {"AiResponseDone", "AiError"}

\* the tasks that can still send
Active == {t \in 1..Len(tasks) : tasks[t].pc \in {"setup", "stream"}}

\* how often pat occurs in s
Occurrences(s, pat) ==
    Cardinality({i \in 1..(Len(s) - Len(pat) + 1) :
                    SubSeq(s, i, i + Len(pat) - 1) = pat})

(***************************************************************************)
(* C1.  After the user has cancelled a turn, an event of that turn's task  *)
(* that the main loop receives while no newer turn exists leaves the       *)
(* message list (contents and token counts), the generated-token counter   *)
(* and tokens_per_second as they were.                                     *)
(***************************************************************************)
C1_LateEventsOfCancelledTurnDropped ==
    [][ (/\ RecvStep
         /\ Head(rx).src = Len(tasks)
         /\ tasks[Head(rx).src].cancelled)
        => /\ app'.messages = app.messages
           /\ app'.generation_token_count = app.generation_token_count
           /\ app'.tokens_per_second = app.tokens_per_second ]_vars

(***************************************************************************)
(* C2.  At any time at most one producer task can still send events.       *)
(***************************************************************************)
C2_AtMostOneActiveProducer == Cardinality(Active) <= 1

(***************************************************************************)
(* C3.  A task whose turn the user has cancelled sends no event: no step   *)
(* puts an event of a cancelled turn's task on the channel.                *)
(***************************************************************************)
C3_CancelledTaskSendsNothing ==
    [][ \A i \in 1..Len(Sent) : ~tasks[Sent[i].src].cancelled ]_vars

(***************************************************************************)
(* C9.  A terminal event (AiResponseDone or AiError) received while no     *)
(* turn is in progress, the turn having completed, failed or been          *)
(* cancelled, leaves the message list as it was.                           *)
(***************************************************************************)
C9_TerminalEventOnFinishedTurnIsNoOp ==
    [][ (RecvStep /\ IsTerminal(Head(rx)) /\ ~app.is_loading)
        => app'.messages = app.messages ]_vars

(***************************************************************************)
(* C10.  The cancellation marker occurs at most once in every message,     *)
(* whatever keys were pressed and events received: Esc cancels only a turn *)
(* in progress.                                                            *)
(***************************************************************************)
C10_MarkerAtMostOnce ==
    \A i \in 1..Len(app.messages) :
        Occurrences(app.messages[i].content, ABORT_MARKER) <= 1

\* two turns were cancelled, the second after the first was already finished
C10_Witness ==
    /\ Len(app.messages) >= 4
    /\ ~app.is_loading
    /\ Occurrences(app.messages[2].content, ABORT_MARKER) = 1
    /\ Occurrences(app.messages[4].content, ABORT_MARKER) = 1

(***************************************************************************)
(* Histories of a task: h is the sequence of events it has sent.           *)
(***************************************************************************)
\* the spans open after the first n events of h: opens minus closes
Depth(h, n) ==
    Cardinality({i \in 1..n : h[i].kind = "open"})
      - Cardinality({i \in 1..n : h[i].kind = "close"})

Kinds(h) == [i \in 1..Len(h) |-> h[i].kind]

(***************************************************************************)
(* C4.  Every terminal event a task sends is the last event it sends, and  *)
(* a task that has run to its end has sent one: exactly one terminal       *)
(* event, with nothing after it.                                           *)
(***************************************************************************)
C4_ExactlyOneTerminalEventLast ==
    \A t \in 1..Len(tasks) :
        LET h == SentBy(t)
        IN  /\ \A i \in 1..Len(h) : IsTerminal(h[i]) => i = Len(h)
            /\ tasks[t].pc = "finished" => (h # <<>> /\ IsTerminal(h[Len(h)]))

\* a stream that ends inside a span without a done unit: the task has sent
\* the close marker and then the completion, and has ended
C4_Witness ==
    /\ Len(tasks) = 1
    /\ tasks[1].pc = "finished"
    /\ tasks[1].pulled = 2
    /\ Kinds(SentBy(1)) = <<"open", "reasoning", "close", "done">>
    /\ rx = <<>>

(***************************************************************************)
(* C5.  A failure event is never sent inside a reasoning span: when the    *)
(* error arrives in a span, the close marker is sent before AiError.       *)
(***************************************************************************)
C5_SpanClosedBeforeFailure ==
    \A t \in 1..Len(tasks) :
        LET h == SentBy(t)
        IN  \A i \in 1..Len(h) : h[i].type = "AiError" => Depth(h, i - 1) = 0

(***************************************************************************)
(* C6.  In what a task sends, an open marker is sent only while no span is *)
(* open and a close marker only while one is, so the markers alternate,    *)
(* starting with an open marker; a reasoning fragment is sent inside a     *)
(* span and an answer fragment outside.                                    *)
(***************************************************************************)
C6_SpansWellFormed ==
    \A t \in 1..Len(tasks) :
        LET h == SentBy(t)
        IN  \A i \in 1..Len(h) :
                LET d == Depth(h, i - 1)
                IN  /\ h[i].kind \in {"open", "answer"} => d = 0
                    /\ h[i].kind \in {"close", "reasoning"} => d = 1

\* a span was opened, filled, closed by an answer, and a second span opened
C6_Witness ==
    /\ Len(tasks) = 1
    /\ Kinds(SentBy(1)) =
          <<"open", "reasoning", "close", "answer", "open", "reasoning">>

(***************************************************************************)
(* FairSpec: Spec with the scheduling the program runs under.  run_app's   *)
(* loop never blocks (try_recv, then a poll of at most 16 ms), and the     *)
(* tokio runtime resumes a spawned task whose await is ready: the request  *)
(* is answered or fails, and the byte source yields, errors or ends.       *)
(***************************************************************************)
NextLive ==
    \/ MainLoop(CoreKeys, MaxTurns) /\ UNCHANGED <<sent, yielded, dec, store>>
    \/ \E t \in 1..Len(tasks), ok \in BOOLEAN :
          ProducerSetup(t, ok, ERR_SEND) /\ UNCHANGED <<sent, yielded, dec, store>>
    \/ \E t \in 1..Len(tasks), item \in CoreItems :
          ProducerNext(t, item, MaxUnits) /\ UNCHANGED <<sent, yielded, dec, store>>

\* task t is resumed: its request has returned, or its stream has an item
ProducerStep(t) ==
    \/ \E ok \in BOOLEAN : ProducerSetup(t, ok, ERR_SEND) /\ UNCHANGED <<sent, yielded, dec, store>>
    \/ \E item \in CoreItems : ProducerNext(t, item, MaxUnits) /\ UNCHANGED <<sent, yielded, dec, store>>

Fairness ==
    /\ WF_vars(MainLoop(CoreKeys, MaxTurns) /\ UNCHANGED <<sent, yielded, dec, store>>)
    /\ \A t \in 1..MaxTurns : WF_vars(ProducerStep(t))

FairSpec == Init /\ [][NextLive]_vars /\ Fairness

(***************************************************************************)
(* C8.  Every turn that is in progress (is_loading) eventually is finished *)
(* (is_loading false): the UI is never left loading forever.               *)
(***************************************************************************)
C8_EveryTurnFinishes == app.is_loading ~> ~app.is_loading

\* a turn that was never cancelled has been finished by its task's own
\* terminal event, and nothing is left on the channel
C8_Witness ==
    /\ Len(tasks) = 1
    /\ tasks[1].pc = "finished"
    /\ ~tasks[1].cancelled
    /\ tasks[1].pulled = 2
    /\ rx = <<>>
    /\ ~app.is_loading

(***************************************************************************)
(* The decoder under every chunking (DecoderSpec).                         *)
(***************************************************************************)
\* the input is N well-formed newline-terminated records and the byte
\* stream yields all of it
WellFormedInput ==
    /\ dec.tail = <<>>
    /\ \A i \in 1..Len(dec.lines) : dec.lines[i].kind = "record"
    /\ ~dec.errored

\* the units of the input's records, in the input's order
UnitsOfInput == [i \in 1..Len(dec.lines) |-> Ok(dec.lines[i].unit)]

IsPrefix(a, b) == Len(a) <= Len(b) /\ a = SubSeq(b, 1, Len(a))

\* C7: for an input of N well-formed newline-terminated records, however the
\* byte stream cuts it into chunks (inside a record, at a newline, with empty
\* chunks), the stream yields the N units of the records in order: what it
\* has yielded is always the first units of the input, without an error, and
\* when it ends it has yielded all N.
C7_SameUnitsForEveryChunking ==
    WellFormedInput =>
        /\ IsPrefix(dec.out, UnitsOfInput)
        /\ dec.ended => dec.out = UnitsOfInput

\* two different records, a chunk that ended inside a record, an empty chunk,
\* and the stream read to its end
C7_Witness ==
    /\ WellFormedInput
    /\ Len(dec.lines) = 2
    /\ dec.lines[1] # dec.lines[2]
    /\ dec.split_inside
    /\ dec.empty_chunk
    /\ dec.ended
    /\ Len(dec.out) = 2

(***************************************************************************)
(* Cancellation, completion and failure as the main loop handles them      *)
(* (Spec).                                                                 *)
(***************************************************************************)
\* the step is a key press that cancels the turn in progress
CancelStep == main_pc = "poll" /\ app.is_loading /\ ~app'.is_loading

\* the index of the assistant message of turn t
MessageOf(t) == tasks[t].msg

\* C11: a key press that cancels the turn in progress, at any point of its
\* stream, leaves the turn's assistant message with its content so far
\* followed by the marker "\n\n[Response stream aborted by user]", changes no
\* other message and adds none, and leaves is_loading false, is_thinking
\* false and the generation timer unset.
C11_CancelKeepsContentAndMarks ==
    [][ CancelStep =>
          LET n == MessageOf(Len(tasks))
          IN  /\ Len(app'.messages) = Len(app.messages)
              /\ app'.messages[n].content = app.messages[n].content \o ABORT_MARKER
              /\ \A i \in 1..Len(app.messages) :
                     i # n => app'.messages[i] = app.messages[i]
              /\ ~app'.is_loading
              /\ ~app'.is_thinking
              /\ app'.generation_start_time = None ]_vars

\* a turn was cancelled inside a reasoning span: its message holds the open
\* marker and the fragment received so far, then the marker of cancellation
C11_Witness ==
    /\ Len(tasks) = 1
    /\ tasks[1].cancelled
    /\ ~app.is_loading
    /\ ~app.is_thinking
    /\ app.generation_start_time = None
    /\ app.messages[MessageOf(1)].content =
          THINKING_OPEN \o <<"h", "m">> \o ABORT_MARKER

(***************************************************************************)
(* The decoder and the done flag (DecoderSpec).                            *)
(***************************************************************************)
\* C12: the stream treats a unit with done = true as its last: once it has
\* yielded such a unit it yields no further unit, whatever records follow
\* in the bytes.
C12_NoUnitYieldedAfterDone ==
    \A i \in 1..Len(dec.out), j \in 1..Len(dec.out) :
        (i < j /\ dec.out[i].tag = "Ok" /\ dec.out[i].unit.done)
            => dec.out[j].tag # "Ok"

(***************************************************************************)
(* The reasoning preference and the reasoning flag.                        *)
(***************************************************************************)
\* the contents of the messages, in order
Contents(a) == [i \in 1..Len(a.messages) |-> a.messages[i].content]

\* C13: while show_thinking is off, receiving a reasoning fragment of the
\* turn in progress adds nothing to the content of any message (and leaves
\* is_thinking as the span markers set it).
C13_HiddenReasoningNotAppended ==
    [][ (/\ RecvStep
         /\ Head(rx).kind = "reasoning"
         /\ app.is_loading
         /\ ~app.show_thinking)
        => /\ Contents(app') = Contents(app)
           /\ app'.is_thinking = app.is_thinking ]_vars

\* the events of the only task that the main loop has handled so far
Handled == Len(SentBy(1)) - Len(rx)

\* C14: while a turn is in progress, is_thinking is what the task's span
\* markers say: after the main loop has handled the first k events the task
\* sent, is_thinking is true exactly when a span is open after those k
\* events, whatever text the fragments carry.
C14_FlagFollowsClassifier ==
    (Len(tasks) = 1 /\ app.is_loading)
        => (app.is_thinking <=> Depth(SentBy(1), Handled) = 1)

(***************************************************************************)
(* The end of the stream and errors, as the task handles them              *)
(* (ProducerSpec).                                                         *)
(***************************************************************************)
\* stream.next() yields None
EndOfStream == [tag |-> "None", unit |-> None, reason |-> <<>>]

\* C15: when the stream ends without a done unit and without an error, the
\* task sends the close marker if a span is open, and then the completion
\* event, and nothing else.
C15_PrematureEndClosesAndCompletes ==
    [][ \A t \in 1..Len(tasks) :
          ProducerNext(t, EndOfStream, MaxItems) =>
              Kinds(Sent) = IF Depth(SentBy(t), Len(SentBy(t))) = 1
                            THEN <<"close", "done">> ELSE <<"done">> ]_vars

\* the stream ended inside a span: the task, whose loop never left the span,
\* has sent the close marker and then the completion
C15_Witness ==
    /\ Len(tasks) = 1
    /\ tasks[1].pc = "finished"
    /\ tasks[1].in_thinking_block
    /\ Kinds(SentBy(1)) = <<"open", "reasoning", "reasoning", "close", "done">>

(***************************************************************************)
(* Finished turns (Spec).                                                  *)
(***************************************************************************)
\* turn t has finished: a newer turn exists, which is submitted only while
\* no turn is loading, or no turn is loading now
Finished(t) == t < Len(tasks) \/ ~app.is_loading

\* C16: once a turn has finished, by completion, failure or cancellation, no
\* step changes the content or the token count of its assistant message:
\* no event of any task, no key press, no new submission.
C16_FinishedTurnIsFrozen ==
    [][ \A t \in 1..Len(tasks) :
          Finished(t) =>
              /\ app'.messages[MessageOf(t)].content
                    = app.messages[MessageOf(t)].content
              /\ app'.messages[MessageOf(t)].tokens
                    = app.messages[MessageOf(t)].tokens ]_vars

\* the first turn was cancelled while its task went on, a second turn was
\* submitted, and the second turn's message has received text while the
\* first turn's message still ends with its marker
C16_Witness ==
    /\ Len(tasks) = 2
    /\ tasks[1].cancelled
    /\ tasks[1].pc = "stream"
    /\ app.is_loading
    /\ app.messages[MessageOf(2)].content # <<>>
    /\ app.messages[MessageOf(1)].content = THINKING_OPEN \o ABORT_MARKER

(***************************************************************************)
(* Records with absent members (DecoderSpec).                              *)
(***************************************************************************)
\* C17: a record that leaves members out decodes, the absent members taking
\* the defaults of their types: for an input of one such record, read to its
\* end without a transport error, the stream yields the record's unit and no
\* error.
C17_AbsentFieldsTakeDefaults ==
    (/\ Len(dec.lines) = 1
     /\ dec.lines[1].kind = "partial"
     /\ dec.tail = <<>>
     /\ ~dec.errored
     /\ dec.ended)
        => dec.out = <<Ok(dec.lines[1].unit)>>

(***************************************************************************)
(* A record that does not parse (ProducerSpec).                            *)
(***************************************************************************)
\* stream.next() yields the error of a record that failed to parse
ParseError == Err(ERR_PARSE)

\* C18: when the stream reports a parse error for a record, the task sends
\* one failure event and nothing else, and ends: it reads no later record,
\* and a task that has ended sends nothing more.
C18_MalformedRecordIsFatal ==
    [][ \A t \in 1..Len(tasks) :
          /\ ProducerNext(t, ParseError, MaxItems) =>
                /\ Len(Sent) = 1
                /\ Sent[1].type = "AiError"
                /\ Sent[1].text = ERR_PARSE
                /\ tasks'[t].pc = "finished"
          /\ tasks[t].pc = "finished" =>
                /\ sent'[t] = sent[t]
                /\ tasks'[t] = tasks[t] ]_vars

\* a record failed to parse after a unit had been read: the task has ended,
\* and the last thing it sent is the failure event
C18_Witness ==
    /\ Len(tasks) = 1
    /\ tasks[1].pc = "finished"
    /\ tasks[1].pulled = 2
    /\ Kinds(SentBy(1)) = <<"answer", "error">>
    /\ SentBy(1)[2].text = ERR_PARSE

(***************************************************************************)
(* The failure and completion events as the main loop handles them (Spec). *)
(***************************************************************************)
\* C19: receiving a failure event leaves every message there is as it was,
\* the message in progress with the content assembled so far, appends one
\* new assistant message "Error: <reason>" with token count 0, and leaves
\* is_loading and is_thinking false.
C19_FailureAppendsSeparateNotice ==
    [][ (RecvStep /\ Head(rx).type = "AiError") =>
          /\ app'.messages =
                Append(app.messages,
                       [role |-> "Assistant",
                        content |-> ERROR_PREFIX \o Head(rx).text,
                        tokens |-> 0])
          /\ ~app'.is_loading
          /\ ~app'.is_thinking ]_vars

\* a turn failed after text had arrived: its message holds that text, and
\* the notice follows it as a message of its own
C19_Witness ==
    /\ Len(tasks) = 1
    /\ ~tasks[1].cancelled
    /\ ~app.is_loading
    /\ Len(app.messages) = 3
    /\ app.messages[2].content = THINKING_OPEN \o <<"h", "m">>
    /\ app.messages[3] =
          [role |-> "Assistant", content |-> ERROR_PREFIX \o ERR_STREAM, tokens |-> 0]

\* C20: receiving the completion event clears the generation timer, leaves
\* is_loading and is_thinking false, and leaves the message list (every
\* message's content and token count) and tokens_per_second as they were.
C20_CompletionFrame ==
    [][ (RecvStep /\ Head(rx).type = "AiResponseDone") =>
          /\ app'.generation_start_time = None
          /\ ~app'.is_loading
          /\ ~app'.is_thinking
          /\ app'.messages = app.messages
          /\ app'.tokens_per_second = app.tokens_per_second ]_vars

\* a turn completed after text had arrived over a measurable time: the rate
\* is still there, the timer is not
C20_Witness ==
    /\ Len(tasks) = 1
    /\ tasks[1].pc = "finished"
    /\ ~tasks[1].cancelled
    /\ rx = <<>>
    /\ ~app.is_loading
    /\ app.generation_start_time = None
    /\ app.tokens_per_second # Zero
    /\ app.messages[2].content = THINKING_OPEN \o <<"h", "m">> \o THINKING_CLOSE

(***************************************************************************)
(* A request that fails before there is a stream (ProducerSpec).           *)
(***************************************************************************)
\* task t ended before its stream yielded anything: generate_stream failed
SetupFailed(t) == tasks[t].pc = "finished" /\ tasks[t].pulled = 0

\* C21: when the request cannot be sent or is answered with a status that
\* is no success, the task sends one failure event, carrying the reason,
\* and no chunk, and the turn's assistant placeholder stays empty.
C21_SetupFailureSendsOneFailure ==
    \A t \in 1..Len(tasks) :
        SetupFailed(t) =>
            /\ Len(SentBy(t)) = 1
            /\ SentBy(t)[1].type = "AiError"
            /\ SentBy(t)[1].text \in SetupErrors
            /\ app.messages[MessageOf(t)].content = <<>>

\* the request was answered with status 500 and the main loop has handled
\* the failure: the placeholder is empty and the notice follows it
C21_Witness ==
    /\ Len(tasks) = 1
    /\ SetupFailed(1)
    /\ SentBy(1)[1].text = ERR_STATUS
    /\ rx = <<>>
    /\ ~app.is_loading
    /\ Len(app.messages) = 3
    /\ app.messages[2].content = <<>>

(***************************************************************************)
(* The channel between a task and the main loop (ProducerSpec).            *)
(***************************************************************************)
\* C22: the main loop handles the events of a task in the order the task
\* sent them.  The channel always holds the last events the task sent, in
\* the order sent, none missing, none twice; it changes only by a send, which
\* adds at its end, or by a receive, which takes the one event at its head;
\* a pass of the loop receives once; and the event handled is the next one
\* in the order sent.
C22_EventsHandledInOrderSent ==
    [][ LET h  == SentBy(1)
            h2 == IF 1 \in DOMAIN sent' THEN sent'[1] ELSE <<>>
        IN  /\ Len(rx') <= Len(h2)
            /\ rx' = SubSeq(h2, Len(h2) - Len(rx') + 1, Len(h2))
            /\ rx' # rx =>
                 \/ Len(rx') > Len(rx) /\ SubSeq(rx', 1, Len(rx)) = rx
                 \/ /\ main_pc = "recv"
                    /\ main_pc' = "poll"
                    /\ rx' = Tail(rx)
                    /\ app' = handle_app_event(app, h[Handled + 1], now) ]_vars

\* four events were sent; the main loop has handled the first two, in that
\* order, and the other two wait in the channel
C22_Witness ==
    /\ Len(tasks) = 1
    /\ Len(SentBy(1)) = 4
    /\ Handled = 2
    /\ Kinds(SentBy(1)) = <<"open", "reasoning", "close", "answer">>
    /\ app.messages[2].content = SentBy(1)[1].text \o SentBy(1)[2].text

(***************************************************************************)
(* The token count of the message in progress (ProducerSpec).              *)
(***************************************************************************)
\* the words of s: what is left when s is cut at its whitespace
RECURSIVE Words(_)
Words(s) ==
    LET t == trim_start(s)
        n == IF \E i \in 1..Len(t) : t[i] \in Whitespace
             THEN (CHOOSE i \in 1..Len(t) :
                      t[i] \in Whitespace /\ \A j \in 1..(i - 1) : t[j] \notin Whitespace) - 1
             ELSE Len(t)
    IN  IF t = <<>> THEN <<>>
        ELSE <<SubSeq(t, 1, n)>> \o Words(SubSeq(t, n + 1, Len(t)))

\* the least integer that is at least 1.3 x n
CeilOf13Tenths(n) == CHOOSE c \in 0..(2 * n) : 10 * c >= 13 * n /\ 10 * (c - 1) < 13 * n

ReasoningOnly(item) ==
    /\ item.tag = "Ok"
    /\ item.unit.thinking # <<>>
    /\ item.unit.response = <<>>
    /\ ~item.unit.done

\* the item is a last unit that carries visible text only
FinalAnswerOnly(item) ==
    /\ item.tag = "Ok"
    /\ item.unit.thinking = <<>>
    /\ item.unit.response # <<>>
    /\ item.unit.done

\* C24: when a stream has yielded k >= 1 units with reasoning text only and
\* then one unit with visible text only and done = true, the task has sent:
\* the open marker, the k reasoning fragments in the units' order, the close
\* marker, the answer fragment, the completion; and nothing else.
C24_ReasoningThenAnswer ==
    \A t \in 1..Len(tasks) :
        LET y == YieldedTo(t)
            k == Len(y) - 1
            h == SentBy(t)
        IN  (/\ k >= 1
             /\ \A i \in 1..k : ReasoningOnly(y[i])
             /\ FinalAnswerOnly(y[k + 1]))
            => /\ Len(h) = k + 4
               /\ h[1].type = "AiResponseChunk" /\ h[1].text = THINKING_OPEN
               /\ \A i \in 1..k :
                     /\ h[i + 1].type = "AiResponseChunk"
                     /\ h[i + 1].text = y[i].unit.thinking
               /\ h[k + 2].type = "AiResponseChunk" /\ h[k + 2].text = THINKING_CLOSE
               /\ h[k + 3].type = "AiResponseChunk"
               /\ h[k + 3].text = y[k + 1].unit.response
               /\ h[k + 4].type = "AiResponseDone"
               /\ tasks[t].pc = "finished"

\* two reasoning units with different texts, then the answer
C24_Witness ==
    /\ Len(tasks) = 1
    /\ Len(YieldedTo(1)) = 3
    /\ ReasoningOnly(YieldedTo(1)[1])
    /\ ReasoningOnly(YieldedTo(1)[2])
    /\ YieldedTo(1)[1].unit.thinking # YieldedTo(1)[2].unit.thinking
    /\ FinalAnswerOnly(YieldedTo(1)[3])
    /\ Len(SentBy(1)) = 6

(***************************************************************************)
(* Submission (Spec).                                                      *)
(***************************************************************************)
\* the step is an accepted submission: a task is spawned
SubmitStep == Len(tasks') = Len(tasks) + 1

\* C25: a submission is accepted only while no turn is in progress and the
\* input buffer is not empty.  An accepted submission appends one user
\* message with the text of the buffer and one empty assistant placeholder
\* with token count 0, leaves the earlier messages as they were, sets
\* is_loading, empties the input buffer, sets tokens_per_second to 0 and
\* unsets the generation timer.  A key press while a turn is in progress or
\* the buffer is empty submits nothing.
C25_SubmissionFrame ==
    [][ LET n == Len(app.messages)
        IN  /\ SubmitStep =>
                 /\ ~app.is_loading
                 /\ app.input_buffer # <<>>
                 /\ Len(app'.messages) = n + 2
                 /\ SubSeq(app'.messages, 1, n) = app.messages
                 /\ app'.messages[n + 1].role = "User"
                 /\ app'.messages[n + 1].content = app.input_buffer
                 /\ app'.messages[n + 2] =
                       [role |-> "Assistant", content |-> <<>>, tokens |-> 0]
                 /\ app'.is_loading
                 /\ app'.input_buffer = <<>>
                 /\ app'.tokens_per_second = Zero
                 /\ app'.generation_start_time = None
            /\ (main_pc = "poll" /\ (app.is_loading \/ app.input_buffer = <<>>)) =>
                 /\ ~SubmitStep
                 /\ Len(app'.messages) = n ]_vars

\* a second turn was submitted after the first had completed with a rate:
\* the first turn's messages are as they were, the new placeholder is empty,
\* and the rate is 0 again
C25_Witness ==
    /\ Len(tasks) = 2
    /\ tasks[2].pc = "setup"
    /\ tasks[1].pc = "finished"
    /\ ~tasks[1].cancelled
    /\ app.is_loading
    /\ Len(app.messages) = 4
    /\ app.messages[2].content = THINKING_OPEN \o <<"h", "m">> \o THINKING_CLOSE
    /\ app.messages[4] = [role |-> "Assistant", content |-> <<>>, tokens |-> 0]
    /\ app.tokens_per_second = Zero
    /\ app.generation_start_time = None
    /\ app.generation_token_count > 0

(***************************************************************************)
(* Saving and loading a conversation (StorageSpec).                        *)
(***************************************************************************)
\* C26: a conversation that was saved and then loaded comes back with as
\* many messages, in the same order, each with the role and the content it
\* was saved with.
C26_SaveLoadRoundTrip ==
    [][ (store.file # None /\ store.loaded = None /\ store'.loaded # None) =>
          LET m == store.messages
              l == store'.loaded[1]
          IN  /\ Len(l) = Len(m)
              /\ \A i \in 1..Len(m) :
                    /\ l[i].role = m[i].role
                    /\ l[i].content = m[i].content ]_vars

\* the first line of the buffer that is not blank, with its newline (None
\* when the buffer holds no such line)
RECURSIVE first_record(_)
first_record(buffer) ==
    IF position(buffer) = 0 THEN None
    ELSE LET x == split_line(buffer)
         IN  IF trim(x.line) = <<>> THEN first_record(x.buffer)
             ELSE Some(x.line)

\* C27: while the buffer holds a complete record (a line that is not blank,
\* with its newline), a pass of the decoder takes nothing from the byte
\* stream, does not end the stream and reports no failure of the source: it
\* either removes a blank line, and the record is still the first one of the
\* buffer, or returns the item of that record and of no other.
C27_BufferDrainedBeforeReading ==
    [][ (~dec.ended /\ first_record(dec.buffer) # None) =>
          /\ dec'.rest = dec.rest
          /\ dec'.pulled = FALSE \/ dec'.pulled = dec.pulled
          /\ ~dec'.ended
          /\ dec'.errored = dec.errored
          /\ \/ /\ dec'.out = dec.out
                /\ Len(dec'.buffer) < Len(dec.buffer)
                /\ first_record(dec'.buffer) = first_record(dec.buffer)
             \/ /\ dec'.out = dec.out \o line_result(first_record(dec.buffer)[1])
                /\ Len(dec'.out) = Len(dec.out) + 1 ]_vars

\* one chunk brought two records: the second was returned by a call that did
\* not poll the byte stream
C27_Witness ==
    /\ Len(dec.lines) = 2
    /\ \A i \in 1..2 : dec.lines[i].kind = "record"
    /\ Len(dec.out) = 2
    /\ \A i \in 1..2 : dec.out[i] = Ok(dec.lines[i].unit)
    /\ dec.from_buffer
    /\ ~dec.split_inside
    /\ ~dec.empty_chunk

NonBlank(l) == l.kind # "blank"

\* the item of what is left without a newline at the end of the input
Remainder(tail) ==
    LET parsed == from_str(trim(tail))
    IN  IF parsed = None THEN Err(ERR_PARSE_FINAL) ELSE Ok(parsed[1])

\* C28: when a stream has ended and the source did not fail, it yielded one
\* item for each line that is not blank and, after them, exactly one item
\* for a remainder that is not blank (its unit, or a failure when it does not
\* parse), and nothing for a remainder that is empty or blank; the buffer is
\* then empty or blank.
C28_RemainderParsedOnce ==
    (dec.ended /\ ~dec.errored) =>
        LET n == Len(SelectSeq(dec.lines, NonBlank))
        IN  /\ trim(dec.buffer) = <<>>
            /\ IF trim(dec.tail) = <<>>
               THEN Len(dec.out) = n
               ELSE /\ Len(dec.out) = n + 1
                    /\ dec.out[n + 1] = Remainder(dec.tail)

\* the input ended in the middle of a record, after some lines: the stream
\* ended with one failure for what was left
C28_Witness ==
    /\ dec.ended
    /\ ~dec.errored
    /\ dec.lines # <<>>
    /\ dec.tail = <<"{", "R">>
    /\ dec.out[Len(dec.out)] = Err(ERR_PARSE_FINAL)
    /\ dec.split_inside

\* C29: the pass in which the byte stream fails returns one item, a failure
\* with the text of a stream error, and leaves the buffer as it was; the
\* buffer held no complete record, and no unit is yielded after the failure.
C29_TransportErrorReturnedAtOnce ==
    [][ /\ (~dec.errored /\ dec'.errored) =>
              /\ dec'.out = Append(dec.out, Err(ERR_STREAM))
              /\ dec'.buffer = dec.buffer
              /\ dec'.pulled = FALSE
              /\ first_record(dec.buffer) = None
              /\ ~whole_buffer_parses(dec.buffer)
        /\ dec.errored =>
              /\ Len(dec'.out) <= Len(dec.out) + 1
              /\ \A i \in (Len(dec.out) + 1)..Len(dec'.out) :
                    dec'.out[i].tag = "Err" ]_vars

\* the source failed with half a record in the buffer
C29_Witness ==
    /\ dec.errored
    /\ dec.buffer # <<>>
    /\ trim(dec.buffer) # <<>>
    /\ dec.out # <<>>
    /\ dec.out[Len(dec.out)] = Err(ERR_STREAM)
    /\ \E i \in 1..Len(dec.out) : dec.out[i].tag = "Ok"

\* the item of a line that is not blank: its unit, or a failure for a line
\* that does not parse
ItemOf(l) ==
    IF from_str(trim(l.bytes)) = None THEN Err(ERR_PARSE)
    ELSE Ok(from_str(trim(l.bytes))[1])

\* C30: while the source has not failed, the items yielded are the items of
\* the lines that are not blank, one each and in the order of the input: a
\* malformed line gives one failure, in its place, and every record after it
\* gives its own unit.
C30_MalformedRecordFailsOneCall ==
    ~dec.errored =>
        LET nb == SelectSeq(dec.lines, NonBlank)
        IN  \A i \in 1..Len(dec.out) :
               i <= Len(nb) =>
                  /\ dec.out[i] = ItemOf(nb[i])
                  /\ nb[i].kind = "malformed" => dec.out[i] = Err(ERR_PARSE)
                  /\ nb[i].kind = "record" => dec.out[i] = Ok(nb[i].unit)

\* a malformed line, then a record: a failure, then the record's unit
C30_Witness ==
    /\ ~dec.errored
    /\ Len(dec.lines) = 2
    /\ dec.lines[1].kind = "malformed"
    /\ dec.lines[2].kind = "record"
    /\ dec.out = <<Err(ERR_PARSE), Ok(dec.lines[2].unit)>>

(***************************************************************************)
(* Events of an earlier turn (Spec).                                       *)
(***************************************************************************)
\* the event at the head of the channel was sent by the task of a turn that
\* the user cancelled and that is no longer the newest turn
StaleEvent ==
    /\ rx # <<>>
    /\ Head(rx).src < Len(tasks)
    /\ tasks[Head(rx).src].cancelled

\* C31: when the main loop receives an event sent by the task of a cancelled
\* turn after a newer turn was submitted, the message list stays as it was
\* (no text is appended to the newer turn's message, no notice is added) and
\* the newer turn is not finished: is_loading stays as it was.
C31_EarlierTurnEventsNeverAffectLaterTurn ==
    [][ (RecvStep /\ StaleEvent)
        => /\ app'.messages = app.messages
           /\ app'.is_loading = app.is_loading ]_vars

(***************************************************************************)
(* The content of a completed turn (TurnsSpec).                            *)
(***************************************************************************)
\* the texts of the chunk events of a history, in order, as one text
RECURSIVE ChunkText(_)
ChunkText(h) ==
    IF h = <<>> THEN <<>>
    ELSE (IF Head(h).type = "AiResponseChunk" THEN Head(h).text ELSE <<>>)
            \o ChunkText(Tail(h))

\* turn t was not cancelled, its task has sent the completion event, and the
\* main loop has received every event of the task
Completed(t) ==
    /\ ~tasks[t].cancelled
    /\ SentBy(t) # <<>>
    /\ SentBy(t)[Len(SentBy(t))].type = "AiResponseDone"
    /\ \A i \in 1..Len(rx) : rx[i].src # t

\* C32: the assistant message of a turn that was not cancelled and whose
\* completion event was received holds the texts of the chunk events the
\* turn's own task sent, in the order sent, and nothing else.
C32_ContentIsOwnChunksInOrder ==
    \A t \in 1..Len(tasks) :
        Completed(t) =>
            app.messages[MessageOf(t)].content = ChunkText(SentBy(t))

(***************************************************************************)
(* The generated-token counter (Spec).                                     *)
(***************************************************************************)
\* the step is the main loop handling a chunk while a turn is loading
ChunkHandled ==
    RecvStep /\ Head(rx).type = "AiResponseChunk" /\ app.is_loading

\* C33: after every chunk handled while a turn is loading, the
\* generated-token counter is the token count of the message in progress,
\* which is the token count of its content; the token count of the message
\* did not go down, and at the first chunk of a turn (the timer is unset)
\* the message's token count was 0, so that the counter starts from 0.
C33_CounterIsTokenCountOfMessage ==
    [][ ChunkHandled =>
          LET n == Len(app.messages)
          IN  /\ Len(app'.messages) = n
              /\ app'.generation_token_count = app'.messages[n].tokens
              /\ app'.messages[n].tokens
                    = count_message_tokens("assistant", app'.messages[n].content)
              /\ app'.messages[n].tokens >= app.messages[n].tokens
              /\ app.generation_start_time = None =>
                    /\ app.messages[n].tokens = 0
                    /\ app'.generation_token_count
                          = app'.messages[n].tokens - 0 ]_vars

\* in a second turn, after a first turn whose counter was not 0, two chunks
\* were handled and the counter is the token count of the second turn's
\* message (two words: 4 + 3)
C33_Witness ==
    /\ Len(tasks) = 2
    /\ app.is_loading
    /\ app.generation_start_time # None
    /\ app.messages[2].tokens > 0
    /\ app.messages[4].content = THINKING_OPEN \o <<"h", "m">>
    /\ app.messages[4].tokens = 7
    /\ app.generation_token_count = 7

(***************************************************************************)
(* A unit with reasoning and visible text (ProducerSpec).                  *)
(***************************************************************************)
\* the item is a unit that carries reasoning text and visible text
ReasoningAndAnswer(item) ==
    /\ item.tag = "Ok"
    /\ item.unit.thinking # <<>>
    /\ item.unit.response # <<>>

\* the type and the text of the events of a sequence
Plain(es) == [i \in 1..Len(es) |-> [type |-> es[i].type, text |-> es[i].text]]

\* C34: for a unit with reasoning text and visible text the task sends, in
\* this order: the open marker if no span is open, the reasoning fragment,
\* the close marker, the answer fragment (and the completion if the unit is
\* the last); no span is open afterwards.
C34_UnitWithBothTexts ==
    [][ \A t \in 1..Len(tasks), item \in StreamItems :
          (ReasoningAndAnswer(item) /\ ProducerNext(t, item, MaxItems)) =>
              /\ Plain(Sent) =
                    Plain((IF tasks[t].in_thinking_block THEN <<>>
                           ELSE <<AiResponseChunk(THINKING_OPEN, "open")>>)
                          \o <<AiResponseChunk(item.unit.thinking, "reasoning"),
                               AiResponseChunk(THINKING_CLOSE, "close"),
                               AiResponseChunk(item.unit.response, "answer")>>
                          \o (IF item.unit.done THEN <<AiResponseDone>> ELSE <<>>))
              /\ ~tasks'[t].in_thinking_block ]_vars

\* a unit of reasoning opened the span, and a unit with both texts followed:
\* no second open marker, and the span was closed before the answer
C34_Witness ==
    /\ Len(tasks) = 1
    /\ Len(YieldedTo(1)) = 2
    /\ ReasoningOnly(YieldedTo(1)[1])
    /\ ReasoningAndAnswer(YieldedTo(1)[2])
    /\ Kinds(SentBy(1)) = <<"open", "reasoning", "reasoning", "close", "answer">>
    /\ ~tasks[1].in_thinking_block

(***************************************************************************)
(* The generation timer (Spec).                                            *)
(***************************************************************************)
\* C35: while no turn is in progress the generation timer is unset.
C35_TimerUnsetWhenIdle ==
    ~app.is_loading => app.generation_start_time = None

(***************************************************************************)
(* The messages of the turn in progress (Spec).                            *)
(***************************************************************************)
\* C36: while a turn is in progress, the message list is not empty, its
\* last message is the assistant message of the newest turn and the message
\* before it is a user message, that turn's.
C36_LastMessagesAreTheTurns ==
    app.is_loading =>
        LET n == Len(app.messages)
        IN  /\ n >= 2
            /\ tasks # <<>>
            /\ MessageOf(Len(tasks)) = n
            /\ app.messages[n].role = "Assistant"
            /\ app.messages[n - 1].role = "User"

\* a second turn in progress after a first turn that failed: the notice of
\* the failure lies between the two turns
C36_Witness ==
    /\ app.is_loading
    /\ Len(tasks) = 2
    /\ Len(app.messages) = 5
    /\ app.messages[3].role = "Assistant"
    /\ app.messages[5].content # <<>>

\* C37: is_thinking is set only while a turn is in progress.
C37_ThinkingOnlyWhileLoading ==
    app.is_thinking => app.is_loading

\* the indicator was set in a second turn, after a first turn that was
\* cancelled while the indicator was set
C37_Witness ==
    /\ Len(tasks) = 2
    /\ tasks[1].cancelled
    /\ app.is_thinking
    /\ app.is_loading

(***************************************************************************)
(* The bytes of a stream (DecoderSpec).                                    *)
(***************************************************************************)
\* C38: at every time, the bytes taken out of the buffer so far (lines that
\* gave a unit, blank lines, lines that did not parse, and records read
\* without a newline), followed by the bytes the buffer holds, are the bytes
\* the byte stream has yielded so far, in order: none is lost, none is there
\* twice.  What the byte stream yielded is what was sent, from its start.
C38_NoByteLostOrDuplicated ==
    /\ dec.taken \o dec.buffer = dec.read
    /\ IsPrefix(dec.read, Flatten(dec.lines) \o dec.tail)

\* a malformed line and a blank line were taken out, and the buffer holds
\* the first byte of a record cut in two by the byte stream
C38_Witness ==
    /\ Len(dec.lines) = 2
    /\ dec.lines[1].kind = "malformed"
    /\ dec.lines[2].kind = "blank"
    /\ dec.taken = Flatten(dec.lines)
    /\ dec.buffer = <<"{">>
    /\ dec.rest = <<"R">>
    /\ dec.out = <<Err(ERR_PARSE)>>

(***************************************************************************)
(* The Esc key (UiSpec).                                                   *)
(***************************************************************************)
\* the step is the main loop handling a press of Esc
EscStep == \E c \in InputChars : PollKey("Esc", c, 1)

\* C39: a press of Esc does one thing, the first that applies: it closes the
\* help window; else it closes the info window; else it clears the pending
\* exit; else, if a turn is in progress, it cancels the turn (is_loading,
\* is_thinking and the timer are cleared and the marker is appended to the
\* last message); else it changes nothing.  Everything else of the App is
\* left as it was, and no task is spawned.
C39_EscDoesOneThingByPriority ==
    [][ EscStep =>
          /\ tasks' = IF app.is_loading /\ ~app'.is_loading
                      THEN [tasks EXCEPT ![Len(tasks)].cancelled = TRUE]
                      ELSE tasks
          /\ app' =
               IF app.show_help THEN [app EXCEPT !.show_help = FALSE]
               ELSE IF app.show_info THEN [app EXCEPT !.show_info = FALSE]
               ELSE IF app.exit_pending THEN [app EXCEPT !.exit_pending = FALSE]
               ELSE IF app.is_loading
               THEN [app EXCEPT !.is_loading = FALSE,
                                !.is_thinking = FALSE,
                                !.generation_start_time = None,
                                !.messages[Len(app.messages)].content =
                                    @ \o ABORT_MARKER]
               ELSE app ]_vars

\* a turn was cancelled: Esc was pressed while a turn was in progress and
\* no window and no pending exit took the key
C39_Witness ==
    /\ Len(tasks) = 1
    /\ tasks[1].cancelled
    /\ ~app.is_loading
    /\ ~app.show_help
    /\ ~app.show_info
    /\ ~app.exit_pending
    /\ app.show_thinking
    /\ app.messages[2].content = THINKING_OPEN \o ABORT_MARKER

====
